---- MODULE Spec2Model ----
(***************************************************************************)
(* Transfer queue and session orchestration of Keeper-Triage.              *)
(*                                                                         *)
(* Three implementations live in the repository and are modelled here:     *)
(*   - QueueService   (Redis lists + metadata hash + relational ledger)    *)
(*   - ChatService    (DatabaseService + QueueService)                     *)
(*   - ChatManager    (in-memory maps and a single transferQueue array)    *)
(* Every public method is one action; helper calls made by a method are    *)
(* pure state transformers composed inside that action.                    *)
(***************************************************************************)
EXTENDS Integers, Sequences, FiniteSets, TLC

VARIABLES
    lists,           \* Redis: queue key -> list of entries (index 1 = head)
    queueMetadata,   \* Redis hash QUEUE_METADATA: session id -> entry or NoEntry
    redisActiveSessions,  \* Redis set ACTIVE_SESSIONS
    ledger,          \* relational transfer_queue row per session id
    now,             \* wall clock read by new Date()
    sessions,        \* relational chat_sessions: id -> row or NoSession
    agents,          \* relational agents: id -> row or NoAgentRow
    cmSessions,      \* ChatManager.sessions
    cmAgents,        \* ChatManager.agents
    transferQueue,   \* ChatManager.transferQueue
    waitingQueue,    \* the array-backed ChatManager's waitingQueue of ids
    socketIo,        \* sockets, OpenAIService.transferCallback, emitted events
    popLog,          \* entries returned by QueueService.getNextInQueue, in order
    calls            \* ChatService calls in progress: call id -> its position

qVars == <<lists, queueMetadata, redisActiveSessions, ledger, now>>
dbVars == <<sessions, agents>>
cmVars == <<cmSessions, cmAgents, transferQueue, waitingQueue>>
vars == <<lists, queueMetadata, redisActiveSessions, ledger, now, sessions,
          agents,
          cmSessions, cmAgents, transferQueue, waitingQueue, socketIo,
          popLog, calls>>

(***************************************************************************)
(* Bounds of the model.                                                    *)
(***************************************************************************)
MaxClock == 3
MaxActive == 1
MaxQueue == 2

\* the session ids callers pass, the ids createSession may hand out where
\* calls of every kind are mixed (the remaining ids name no stored session
\* there) and the agent ids
SessionIds == {1, 2, 3, 4}
CreatableIds == {1, 2}
AgentIds == {1, 2}
\* the ChatService calls that may be in progress at once
CallIds == {1, 2}
SocketIds == {1, 2}

(***************************************************************************)
(* Values.                                                                 *)
(***************************************************************************)
HIGH_PRIORITY_QUEUE == "chat:queue:high"
NORMAL_PRIORITY_QUEUE == "chat:queue:normal"
LOW_PRIORITY_QUEUE == "chat:queue:low"
QueueKeys == {HIGH_PRIORITY_QUEUE, NORMAL_PRIORITY_QUEUE, LOW_PRIORITY_QUEUE}

PrioritySet == {"high", "normal", "low"}
Reasons == {"escalation", "Agent disconnected"}

\* absent hash field / null result of getNextInQueue
NoEntry == [sessionId |-> 0, reason |-> "", priority |-> "", requestedAt |-> 0]

QueueEntry(sessionId, reason, priority, requestedAt) ==
    [sessionId |-> sessionId, reason |-> reason, priority |-> priority,
     requestedAt |-> requestedAt]

(***************************************************************************)
(* Redis list commands.                                                    *)
(***************************************************************************)
LPushTail(list, e) == Append(list, e)
LPush(list, e) == <<e>> \o list

RPopValue(list) == list[Len(list)]
RPopRest(list) == SubSeq(list, 1, Len(list) - 1)

\* index of the first entry (from the head) of session s, 0 if none
RECURSIVE FirstFrom(_, _, _)
FirstFrom(list, i, s) ==
    IF i > Len(list) THEN 0
    ELSE IF list[i].sessionId = s THEN i
    ELSE FirstFrom(list, i + 1, s)

RemoveAt(list, i) == SubSeq(list, 1, i - 1) \o SubSeq(list, i + 1, Len(list))

RECURSIVE FirstEqual(_, _, _)
FirstEqual(list, i, v) ==
    IF i > Len(list) THEN 0
    ELSE IF list[i] = v THEN i
    ELSE FirstEqual(list, i + 1, v)

\* LREM key 1 value: removes the first element, from the head, equal to value
LRem1(list, v) ==
    LET i == FirstEqual(list, 1, v)
    IN IF i = 0 THEN list ELSE RemoveAt(list, i)

(***************************************************************************)
(* QueueService.  A queue state q is the record of the Redis keys, the     *)
(* ledger and the clock; each method maps a queue state to the next one.   *)
(* The ledger keeps, per session id, whether a row exists and its          *)
(* is_active flag (the other columns are never read back).                 *)
(***************************************************************************)
QState == [lists |-> lists, meta |-> queueMetadata,
           active |-> redisActiveSessions,
           ledger |-> ledger, now |-> now]

SetQ(q) ==
    /\ lists' = q.lists
    /\ queueMetadata' = q.meta
    /\ redisActiveSessions' = q.active
    /\ ledger' = q.ledger
    /\ now' = q.now

GetPriorityQueueKey(priority) ==
    CASE priority = "high" -> HIGH_PRIORITY_QUEUE
      [] priority = "normal" -> NORMAL_PRIORITY_QUEUE
      [] priority = "low" -> LOW_PRIORITY_QUEUE
      [] OTHER -> NORMAL_PRIORITY_QUEUE

\* new Date(): the clock advances with every read that stamps an entry
QAddToQueue(q, sessionId, reason, priority) ==
    LET t == q.now + 1
        queueEntry == QueueEntry(sessionId, reason, priority, t)
        queueKey == GetPriorityQueueKey(priority)
    IN [q EXCEPT !.now = t,
                 !.lists[queueKey] = LPush(@, queueEntry),
                 !.meta[sessionId] = queueEntry,
                 !.active = @ \cup {sessionId},
                 !.ledger[sessionId] = "active"]

PrioritiesLowFirst == <<"low", "normal", "high">>
\* the order in which getNextInQueue tries the lists
PopOrder == <<"high", "normal", "low">>

\* the first priority, in PopOrder from position i, whose list is non-empty
RECURSIVE FirstNonEmpty(_, _)
FirstNonEmpty(q, i) ==
    IF i > Len(PopOrder) THEN ""
    ELSE IF Len(q.lists[GetPriorityQueueKey(PopOrder[i])]) > 0 THEN PopOrder[i]
    ELSE FirstNonEmpty(q, i + 1)

\* the entry getNextInQueue returns (NoEntry for null)
QNextEntry(q) ==
    LET p == FirstNonEmpty(q, 1)
    IN IF p = "" THEN NoEntry ELSE RPopValue(q.lists[GetPriorityQueueKey(p)])

\* the queue state getNextInQueue leaves
QGetNextInQueue(q) ==
    LET p == FirstNonEmpty(q, 1)
        queueKey == GetPriorityQueueKey(p)
        e == QNextEntry(q)
    IN IF p = "" THEN q
       ELSE [q EXCEPT !.lists[queueKey] = RPopRest(@),
                      !.meta[e.sessionId] = NoEntry,
                      !.active = @ \ {e.sessionId},
                      !.ledger[e.sessionId] =
                          IF @ = "none" THEN "none" ELSE "processed"]

\* what removeFromQueue returns
QRemoved(q, sessionId) ==
    /\ q.meta[sessionId] # NoEntry
    /\ FirstFrom(q.lists[GetPriorityQueueKey(q.meta[sessionId].priority)],
                 1, sessionId) # 0

\* the queue state removeFromQueue leaves
QRemoveFromQueue(q, sessionId) ==
    IF q.meta[sessionId] = NoEntry THEN q
    ELSE LET queueKey == GetPriorityQueueKey(q.meta[sessionId].priority)
             queueItems == q.lists[queueKey]
             i == FirstFrom(queueItems, 1, sessionId)
         IN [q EXCEPT !.lists[queueKey] =
                          IF i = 0 THEN @ ELSE LRem1(@, queueItems[i]),
                      !.meta[sessionId] = NoEntry,
                      !.active = @ \ {sessionId},
                      !.ledger[sessionId] =
                          IF @ = "none" THEN "none" ELSE "processed"]

\* what getQueuePosition returns
QGetQueuePosition(q, sessionId) ==
    IF q.meta[sessionId] = NoEntry THEN 0
    ELSE LET priority == q.meta[sessionId].priority
             queueItems == q.lists[GetPriorityQueueKey(priority)]
             i == FirstFrom(queueItems, 1, sessionId)
         IN IF i = 0 THEN 0
            ELSE (Len(queueItems) - (i - 1))
                 + (IF priority \in {"normal", "low"}
                    THEN Len(q.lists[HIGH_PRIORITY_QUEUE]) ELSE 0)
                 + (IF priority = "low"
                    THEN Len(q.lists[NORMAL_PRIORITY_QUEUE]) ELSE 0)

\* what getQueueLength returns
QGetQueueLength(q) ==
    Len(q.lists[HIGH_PRIORITY_QUEUE]) + Len(q.lists[NORMAL_PRIORITY_QUEUE])
    + Len(q.lists[LOW_PRIORITY_QUEUE])

(***************************************************************************)
(* DatabaseService.  A database state d is the record of the two tables.   *)
(* An absent row is NoSession / NoAgentRow; a null assigned_agent is 0.    *)
(***************************************************************************)
NoSession == [status |-> "none", assignedAgent |-> 0]
NoAgentRow == [status |-> "none"]
\* a deleted agents row: its id (a uuid) is never handed out again
DeletedAgentRow == [status |-> "deleted"]
AgentExists(row) == row.status \notin {"none", "deleted"}

DbState == [sessions |-> sessions, agents |-> agents]

SetDb(d) ==
    /\ sessions' = d.sessions
    /\ agents' = d.agents

\* INSERT INTO chat_sessions: status 'bot', assigned_agent null
DbCreateSession(d, id) ==
    [d EXCEPT !.sessions[id] = [status |-> "bot", assignedAgent |-> 0]]

\* UPDATE chat_sessions SET status WHERE id (assignedAgent is never passed)
DbUpdateSessionStatus(d, sessionId, status) ==
    IF d.sessions[sessionId] = NoSession THEN d
    ELSE [d EXCEPT !.sessions[sessionId].status = status]

\* the update fails on the foreign key when the agent row is missing
DbAssignOk(d, sessionId, agentId) == AgentExists(d.agents[agentId])

DbAssignSessionToAgent(d, sessionId, agentId) ==
    IF ~DbAssignOk(d, sessionId, agentId) \/ d.sessions[sessionId] = NoSession
    THEN d
    ELSE [d EXCEPT !.sessions[sessionId] =
                       [status |-> "agent", assignedAgent |-> agentId]]

DbCloseSession(d, sessionId) ==
    IF d.sessions[sessionId] = NoSession THEN d
    ELSE [d EXCEPT !.sessions[sessionId].status = "closed"]

DbCreateAgent(d, id) == [d EXCEPT !.agents[id] = [status |-> "available"]]

DbUpdateAgentStatus(d, agentId, status) ==
    IF ~AgentExists(d.agents[agentId]) THEN d
    ELSE [d EXCEPT !.agents[agentId].status = status]

DbRemoveAgent(d, agentId) ==
    [d EXCEPT !.sessions =
                  [s \in SessionIds |->
                      IF d.sessions[s] # NoSession
                         /\ d.sessions[s].assignedAgent = agentId
                      THEN [status |-> "waiting", assignedAgent |-> 0]
                      ELSE d.sessions[s]],
              !.agents[agentId] =
                  IF AgentExists(@) THEN DeletedAgentRow ELSE @]

\* the ids of the rows the select returns
DbGetAgentActiveSessions(d, agentId) ==
    {s \in SessionIds : /\ d.sessions[s] # NoSession
                        /\ d.sessions[s].assignedAgent = agentId
                        /\ d.sessions[s].status = "agent"}

(***************************************************************************)
(* ChatService.  A state st pairs a database state with a queue state.     *)
(***************************************************************************)
CsState == [db |-> DbState, q |-> QState]

SetCs(st) == SetDb(st.db) /\ SetQ(st.q)

\* transferToQueue without the not-found return
CsTransferToQueueUnchecked(st, sessionId, reason, priority) ==
    [db |-> DbUpdateSessionStatus(st.db, sessionId, "waiting"),
     q |-> QAddToQueue(st.q, sessionId, reason, priority)]

CsTransferToQueue(st, sessionId, reason, priority) ==
    IF st.db.sessions[sessionId] = NoSession THEN st
    ELSE [db |-> DbUpdateSessionStatus(st.db, sessionId, "waiting"),
          q |-> QAddToQueue(st.q, sessionId, reason, priority)]

CsAssignResult(st, sessionId, agentId) ==
    /\ st.db.sessions[sessionId] # NoSession
    /\ AgentExists(st.db.agents[agentId])
    /\ DbAssignOk(st.db, sessionId, agentId)

CsAssignSessionToAgent(st, sessionId, agentId) ==
    IF ~CsAssignResult(st, sessionId, agentId) THEN st
    ELSE [db |-> DbUpdateAgentStatus(
                     DbAssignSessionToAgent(st.db, sessionId, agentId),
                     agentId, "busy"),
          q |-> QRemoveFromQueue(st.q, sessionId)]

\* closeSession counting the agent's sessions before the row is closed
CsCloseSessionCountFirst(st, sessionId) ==
    LET session == st.db.sessions[sessionId]
        closed == DbCloseSession(st.db, sessionId)
        q1 == IF session.status = "waiting"
              THEN QRemoveFromQueue(st.q, sessionId) ELSE st.q
        d1 == IF session.assignedAgent # 0
                 /\ DbGetAgentActiveSessions(st.db, session.assignedAgent) = {}
              THEN DbUpdateAgentStatus(closed, session.assignedAgent, "available")
              ELSE closed
    IN IF session = NoSession THEN st ELSE [db |-> d1, q |-> q1]

CsCloseSession(st, sessionId) ==
    LET session == st.db.sessions[sessionId]
        closed == DbCloseSession(st.db, sessionId)
        q1 == IF session.status = "waiting"
              THEN QRemoveFromQueue(st.q, sessionId) ELSE st.q
        d1 == IF session.assignedAgent # 0
                 /\ DbGetAgentActiveSessions(closed, session.assignedAgent) = {}
              THEN DbUpdateAgentStatus(closed, session.assignedAgent, "available")
              ELSE closed
    IN IF session = NoSession THEN st ELSE [db |-> d1, q |-> q1]

\* the orders in which a select may return the rows of a set
Orders(S) ==
    {f \in [1..Cardinality(S) -> S] : \A i, j \in DOMAIN f : f[i] = f[j] => i = j}

RECURSIVE CsRequeueAll(_, _, _)
CsRequeueAll(st, assignedSessions, i) ==
    IF i > Len(assignedSessions) THEN st
    ELSE CsRequeueAll(
             CsTransferToQueue(st, assignedSessions[i], "Agent disconnected",
                               "normal"),
             assignedSessions, i + 1)

\* removeAgent without the not-found return, draining every session whose
\* assigned_agent column still names the agent and leaving those rows as
\* they are
CsRemoveAgentByColumn(st, agentId, assignedSessions) ==
    LET named == {s \in SessionIds : /\ st.db.sessions[s] # NoSession
                                     /\ st.db.sessions[s].assignedAgent = agentId}
        st1 == CsRequeueAll(st, CHOOSE o \in Orders(named) : TRUE, 1)
    IN [st1 EXCEPT !.db.agents[agentId] =
                       IF @ = NoAgentRow THEN @ ELSE DeletedAgentRow]

CsRemoveAgent(st, agentId, assignedSessions) ==
    IF ~AgentExists(st.db.agents[agentId]) THEN st
    ELSE LET st1 == CsRequeueAll(st, assignedSessions, 1)
         IN [st1 EXCEPT !.db = DbRemoveAgent(st1.db, agentId)]

(***************************************************************************)
(* QueueService.clearQueue                                                 *)
(***************************************************************************)
QClearQueue(q) ==
    [q EXCEPT !.lists = [k \in QueueKeys |-> <<>>],
              !.meta = [s \in SessionIds |-> NoEntry],
              !.active = {},
              !.ledger = [s \in SessionIds |->
                             IF q.ledger[s] = "active" THEN "processed"
                             ELSE q.ledger[s]]]

(***************************************************************************)
(* ChatManager (in-memory, priority-aware).  A manager state c is the      *)
(* record of its three fields.  A deleted agent's id is never handed out   *)
(* again (uuid), so agents.get of it stays undefined.                      *)
(***************************************************************************)
NoCmAgent == [status |-> "none", activeSessions |-> <<>>]
DeletedCmAgent == [status |-> "deleted", activeSessions |-> <<>>]

CmState == [sessions |-> cmSessions, agents |-> cmAgents, queue |-> transferQueue]

SetCm(c) ==
    /\ cmSessions' = c.sessions
    /\ cmAgents' = c.agents
    /\ transferQueue' = c.queue
    /\ waitingQueue' = waitingQueue

\* an element of transferQueue; its requestedAt is only read to display the
\* wait time and is left out
CmEntry(sessionId, reason, priority) ==
    [sessionId |-> sessionId, reason |-> reason, priority |-> priority]

CmCreateSession(c, id) ==
    [c EXCEPT !.sessions[id] = [status |-> "bot", assignedAgent |-> 0]]

\* Array.findIndex(item => item.priority === 'low'), 1-based, 0 for -1
RECURSIVE FindLowPriorityIndex(_, _)
FindLowPriorityIndex(queue, i) ==
    IF i > Len(queue) THEN 0
    ELSE IF queue[i].priority = "low" THEN i
    ELSE FindLowPriorityIndex(queue, i + 1)

\* Array.splice(i, 0, e) with a 1-based i
InsertBefore(queue, i, e) ==
    SubSeq(queue, 1, i - 1) \o <<e>> \o SubSeq(queue, i, Len(queue))

CmEnqueue(queue, queueEntry) ==
    LET lowPriorityIndex == FindLowPriorityIndex(queue, 1)
    IN IF queueEntry.priority = "high" THEN <<queueEntry>> \o queue
       ELSE IF queueEntry.priority = "low" THEN Append(queue, queueEntry)
       ELSE IF lowPriorityIndex = 0 THEN Append(queue, queueEntry)
       ELSE InsertBefore(queue, lowPriorityIndex, queueEntry)

CmTransferToQueue(c, sessionId, reason, priority) ==
    IF c.sessions[sessionId] = NoSession THEN c
    ELSE [c EXCEPT !.sessions[sessionId].status = "waiting",
                   !.queue = CmEnqueue(@, CmEntry(sessionId, reason, priority))]

CmRemoveFromQueue(c, sessionId) ==
    LET index == FirstFrom(c.queue, 1, sessionId)
    IN IF index > 0 THEN [c EXCEPT !.queue = RemoveAt(@, index)] ELSE c

CmUpdateSessionStatus(c, sessionId, status) ==
    IF c.sessions[sessionId] = NoSession THEN c
    ELSE LET c1 == [c EXCEPT !.sessions[sessionId].status = status]
         IN IF status \in {"agent", "closed"}
            THEN CmRemoveFromQueue(c1, sessionId) ELSE c1

\* what getNextInQueue returns (0 for undefined)
CmNextSession(c) == IF c.queue = <<>> THEN 0 ELSE c.queue[1].sessionId

CmGetNextInQueue(c) ==
    IF c.queue = <<>> THEN c ELSE [c EXCEPT !.queue = Tail(@)]

CmClearQueue(c) == [c EXCEPT !.queue = <<>>]

CmAddAgent(c, id) ==
    [c EXCEPT !.agents[id] = [status |-> "available", activeSessions |-> <<>>]]

\* the forEach of removeAgent from its i-th element on
RECURSIVE CmRequeueFrom(_, _, _)
CmRequeueFrom(c, activeSessions, i) ==
    IF i > Len(activeSessions) THEN c
    ELSE LET sessionId == activeSessions[i]
             c1 == IF c.sessions[sessionId] = NoSession THEN c
                   ELSE [c EXCEPT
                            !.sessions[sessionId] =
                                [status |-> "waiting", assignedAgent |-> 0],
                            !.queue = Append(@, CmEntry(sessionId,
                                          "Agent disconnected", "normal"))]
         IN CmRequeueFrom(c1, activeSessions, i + 1)

CmRemoveAgent(c, agentId) ==
    IF ~AgentExists(c.agents[agentId]) THEN c
    ELSE [CmRequeueFrom(c, c.agents[agentId].activeSessions, 1)
              EXCEPT !.agents[agentId] = DeletedCmAgent]

CmAssignResult(c, sessionId, agentId) ==
    c.sessions[sessionId] # NoSession /\ AgentExists(c.agents[agentId])

CmAssignSessionToAgent(c, sessionId, agentId) ==
    IF ~CmAssignResult(c, sessionId, agentId) THEN c
    ELSE CmRemoveFromQueue(
             [c EXCEPT !.sessions[sessionId] =
                           [status |-> "agent", assignedAgent |-> agentId],
                       !.agents[agentId] =
                           [status |-> "busy",
                            activeSessions |-> Append(@.activeSessions,
                                                      sessionId)]],
             sessionId)

\* Array.indexOf(sessionId), 1-based, 0 for -1
RECURSIVE IndexOf(_, _, _)
IndexOf(seq, i, x) ==
    IF i > Len(seq) THEN 0
    ELSE IF seq[i] = x THEN i
    ELSE IndexOf(seq, i + 1, x)

CmCloseSession(c, sessionId) ==
    LET session == c.sessions[sessionId]
        agentId == session.assignedAgent
        c1 == [c EXCEPT !.sessions[sessionId].status = "closed"]
        index == IndexOf(c1.agents[agentId].activeSessions, 1, sessionId)
        active1 == IF index > 0
                   THEN RemoveAt(c1.agents[agentId].activeSessions, index)
                   ELSE c1.agents[agentId].activeSessions
        c2 == IF agentId # 0 /\ AgentExists(c1.agents[agentId])
              THEN [c1 EXCEPT !.agents[agentId] =
                         [status |-> IF Len(active1) = 0 THEN "available"
                                     ELSE @.status,
                          activeSessions |-> active1]]
              ELSE c1
    IN IF session = NoSession THEN c ELSE CmRemoveFromQueue(c2, sessionId)

(***************************************************************************)
(* Initial state: empty stores, as after construction.                     *)
(***************************************************************************)
QInit ==
    /\ lists = [k \in QueueKeys |-> <<>>]
    /\ queueMetadata = [s \in SessionIds |-> NoEntry]
    /\ redisActiveSessions = {}
    /\ ledger = [s \in SessionIds |-> "none"]
    /\ now = 0

DbInit ==
    /\ sessions = [s \in SessionIds |-> NoSession]
    /\ agents = [a \in AgentIds |-> NoAgentRow]

CmInit ==
    /\ cmSessions = [s \in SessionIds |-> NoSession]
    /\ cmAgents = [a \in AgentIds |-> NoCmAgent]
    /\ transferQueue = <<>>
    /\ waitingQueue = <<>>

\* a call slot with no call in it
IdleCall ==
    [op |-> "idle", pc |-> "idle", sessionId |-> 0, agentId |-> 0,
     session |-> NoSession, todo |-> <<>>, result |-> FALSE]

Init ==
    /\ QInit
    /\ DbInit
    /\ CmInit
    /\ popLog = <<>>
    /\ calls = [c \in CallIds |-> IdleCall]
    /\ socketIo = [connected |-> {},
                   sessionId |-> [k \in SocketIds |-> 0],
                   transferCallback |-> 0,
                   statusChanged |-> {}]

(***************************************************************************)
(* QueueService on its own: the three list-changing methods.               *)
(***************************************************************************)
AddToQueue(sessionId, reason, priority) ==
    /\ now < MaxClock
    /\ SetQ(QAddToQueue(QState, sessionId, reason, priority))
    /\ UNCHANGED <<dbVars, cmVars, popLog, calls, socketIo>>

GetNextInQueue ==
    LET e == QNextEntry(QState)
    IN /\ SetQ(QGetNextInQueue(QState))
       /\ popLog' = IF e = NoEntry THEN popLog ELSE Append(popLog, e)
       /\ UNCHANGED <<dbVars, cmVars, calls, socketIo>>

RemoveFromQueue(sessionId) ==
    /\ SetQ(QRemoveFromQueue(QState, sessionId))
    /\ UNCHANGED <<dbVars, cmVars, popLog, calls, socketIo>>

QNext ==
    \/ \E s \in SessionIds, p \in PrioritySet : AddToQueue(s, "escalation", p)
    \/ GetNextInQueue
    \/ \E s \in SessionIds : RemoveFromQueue(s)

SpecQ == Init /\ [][QNext]_vars

(***************************************************************************)
(* ChatService: each public method runs to completion as one step.         *)
(***************************************************************************)
CreateSession(id) ==
    /\ id \in CreatableIds
    /\ sessions[id] = NoSession
    /\ SetDb(DbCreateSession(DbState, id))
    /\ UNCHANGED <<qVars, cmVars, popLog, calls, socketIo>>

TransferToQueue(sessionId, reason, priority) ==
    /\ sessions[sessionId] # NoSession => now < MaxClock
    /\ SetCs(CsTransferToQueue(CsState, sessionId, reason, priority))
    /\ UNCHANGED <<cmVars, popLog, calls, socketIo>>

AssignSessionToAgent(sessionId, agentId) ==
    /\ SetCs(CsAssignSessionToAgent(CsState, sessionId, agentId))
    /\ UNCHANGED <<cmVars, popLog, calls, socketIo>>

CloseSession(sessionId) ==
    /\ SetCs(CsCloseSession(CsState, sessionId))
    /\ UNCHANGED <<cmVars, popLog, calls, socketIo>>

AddAgent(id) ==
    /\ agents[id] = NoAgentRow
    /\ SetDb(DbCreateAgent(DbState, id))
    /\ UNCHANGED <<qVars, cmVars, popLog, calls, socketIo>>

RemoveAgent(agentId) ==
    \E assignedSessions \in Orders(DbGetAgentActiveSessions(DbState, agentId)) :
        /\ AgentExists(agents[agentId]) =>
               now + Len(assignedSessions) <= MaxClock
        /\ SetCs(CsRemoveAgent(CsState, agentId, assignedSessions))
        /\ UNCHANGED <<cmVars, popLog, calls, socketIo>>

Next ==
    \/ \E s \in SessionIds : CreateSession(s)
    \/ \E s \in SessionIds, r \in {"escalation"}, p \in PrioritySet :
           TransferToQueue(s, r, p)
    \/ \E s \in SessionIds, a \in AgentIds : AssignSessionToAgent(s, a)
    \/ \E s \in SessionIds : CloseSession(s)
    \/ \E a \in AgentIds : AddAgent(a)
    \/ \E a \in AgentIds : RemoveAgent(a)

Spec == Init /\ [][Next]_vars

(***************************************************************************)
(* ChatManager: each method is one step.  The Redis keys, the ledger and   *)
(* the relational tables are not touched.                                  *)
(***************************************************************************)
SessionStatuses == {"bot", "waiting", "agent", "closed"}

\* the number of entries removeAgent pushes
RequeueCount(agentId) ==
    IF AgentExists(cmAgents[agentId])
    THEN Len(cmAgents[agentId].activeSessions) ELSE 0

StepCreateSession(id) ==
    /\ id \in CreatableIds
    /\ cmSessions[id] = NoSession
    /\ SetCm(CmCreateSession(CmState, id))

StepTransferToQueue(sessionId, reason, priority) ==
    /\ cmSessions[sessionId] # NoSession => Len(transferQueue) < MaxQueue
    /\ SetCm(CmTransferToQueue(CmState, sessionId, reason, priority))

StepRemoveFromQueue(sessionId) == SetCm(CmRemoveFromQueue(CmState, sessionId))

StepGetNextInQueue == SetCm(CmGetNextInQueue(CmState))

StepClearQueue == SetCm(CmClearQueue(CmState))

StepAddAgent(id) ==
    /\ cmAgents[id] = NoCmAgent
    /\ SetCm(CmAddAgent(CmState, id))

StepRemoveAgent(agentId) ==
    /\ Len(transferQueue) + RequeueCount(agentId) <= MaxQueue
    /\ SetCm(CmRemoveAgent(CmState, agentId))

StepAssignSessionToAgent(sessionId, agentId) ==
    /\ CmAssignResult(CmState, sessionId, agentId) =>
           Len(cmAgents[agentId].activeSessions) < MaxActive
    /\ SetCm(CmAssignSessionToAgent(CmState, sessionId, agentId))

StepCloseSession(sessionId) == SetCm(CmCloseSession(CmState, sessionId))

ManagerCreateSession(id) ==
    StepCreateSession(id) /\ UNCHANGED <<qVars, dbVars, popLog, calls, socketIo>>

ManagerTransferToQueue(sessionId, reason, priority) ==
    StepTransferToQueue(sessionId, reason, priority)
    /\ UNCHANGED <<qVars, dbVars, popLog, calls, socketIo>>

ManagerRemoveFromQueue(sessionId) ==
    StepRemoveFromQueue(sessionId) /\ UNCHANGED <<qVars, dbVars, popLog, calls, socketIo>>

ManagerGetNextInQueue ==
    StepGetNextInQueue /\ UNCHANGED <<qVars, dbVars, popLog, calls, socketIo>>

ManagerClearQueue ==
    StepClearQueue /\ UNCHANGED <<qVars, dbVars, popLog, calls, socketIo>>

ManagerAddAgent(id) ==
    StepAddAgent(id) /\ UNCHANGED <<qVars, dbVars, popLog, calls, socketIo>>

ManagerRemoveAgent(agentId) ==
    StepRemoveAgent(agentId) /\ UNCHANGED <<qVars, dbVars, popLog, calls, socketIo>>

ManagerAssignSessionToAgent(sessionId, agentId) ==
    StepAssignSessionToAgent(sessionId, agentId)
    /\ UNCHANGED <<qVars, dbVars, popLog, calls, socketIo>>

ManagerCloseSession(sessionId) ==
    StepCloseSession(sessionId) /\ UNCHANGED <<qVars, dbVars, popLog, calls, socketIo>>

CmNext ==
    \/ \E s \in SessionIds : ManagerCreateSession(s)
    \/ \E s \in SessionIds, p \in PrioritySet :
           ManagerTransferToQueue(s, "escalation", p)
    \/ \E s \in SessionIds : ManagerRemoveFromQueue(s)
    \/ ManagerGetNextInQueue
    \/ ManagerClearQueue
    \/ \E a \in AgentIds : ManagerAddAgent(a)
    \/ \E a \in AgentIds : ManagerRemoveAgent(a)
    \/ \E s \in SessionIds, a \in AgentIds : ManagerAssignSessionToAgent(s, a)
    \/ \E s \in SessionIds : ManagerCloseSession(s)

SpecCM == Init /\ [][CmNext]_vars

(***************************************************************************)
(* ChatManager beside a three-lane queue.  The three Redis lists of        *)
(* QueueService serve as the lanes (high, normal, low; LPUSH at the head,  *)
(* RPOP at the tail); every ChatManager step that adds or removes a        *)
(* transferQueue entry does the same to the lanes.                         *)
(***************************************************************************)
\* the lanes after the entries removeAgent pushes, from the i-th on
RECURSIVE LaneRequeueFrom(_, _, _)
LaneRequeueFrom(q, activeSessions, i) ==
    IF i > Len(activeSessions) THEN q
    ELSE LaneRequeueFrom(
             QAddToQueue(q, activeSessions[i], "Agent disconnected", "normal"),
             activeSessions, i + 1)

PairedCreateSession(id) ==
    StepCreateSession(id) /\ UNCHANGED <<qVars, dbVars, popLog, calls, socketIo>>

PairedAddAgent(id) ==
    StepAddAgent(id) /\ UNCHANGED <<qVars, dbVars, popLog, calls, socketIo>>

PairedTransferToQueue(sessionId, reason, priority) ==
    /\ now < MaxClock
    /\ StepTransferToQueue(sessionId, reason, priority)
    /\ IF cmSessions[sessionId] = NoSession THEN UNCHANGED qVars
       ELSE SetQ(QAddToQueue(QState, sessionId, reason, priority))
    /\ UNCHANGED <<dbVars, popLog, calls, socketIo>>

PairedRemoveFromQueue(sessionId) ==
    /\ StepRemoveFromQueue(sessionId)
    /\ SetQ(QRemoveFromQueue(QState, sessionId))
    /\ UNCHANGED <<dbVars, popLog, calls, socketIo>>

PairedGetNextInQueue ==
    /\ StepGetNextInQueue
    /\ SetQ(QGetNextInQueue(QState))
    /\ UNCHANGED <<dbVars, popLog, calls, socketIo>>

PairedAssignSessionToAgent(sessionId, agentId) ==
    /\ StepAssignSessionToAgent(sessionId, agentId)
    /\ IF CmAssignResult(CmState, sessionId, agentId)
       THEN SetQ(QRemoveFromQueue(QState, sessionId))
       ELSE UNCHANGED qVars
    /\ UNCHANGED <<dbVars, popLog, calls, socketIo>>

PairedRemoveAgent(agentId) ==
    /\ now + RequeueCount(agentId) <= MaxClock
    /\ StepRemoveAgent(agentId)
    /\ IF AgentExists(cmAgents[agentId])
       THEN SetQ(LaneRequeueFrom(QState, cmAgents[agentId].activeSessions, 1))
       ELSE UNCHANGED qVars
    /\ UNCHANGED <<dbVars, popLog, calls, socketIo>>

PairedNext ==
    \/ \E s \in SessionIds : PairedCreateSession(s)
    \/ \E a \in AgentIds : PairedAddAgent(a)
    \/ \E s \in SessionIds, p \in PrioritySet :
           PairedTransferToQueue(s, "escalation", p)
    \/ \E s \in SessionIds : PairedRemoveFromQueue(s)
    \/ PairedGetNextInQueue
    \/ \E s \in SessionIds, a \in AgentIds : PairedAssignSessionToAgent(s, a)
    \/ \E a \in AgentIds : PairedRemoveAgent(a)

SpecCMRef == Init /\ [][PairedNext]_vars

(***************************************************************************)
(* Observations used by the properties.                                    *)
(***************************************************************************)
\* the places (key, index) at which a session id has an entry in the lists
EntriesOf(q, s) ==
    {ki \in QueueKeys \X (1..MaxClock + 1) :
        /\ ki[2] <= Len(q.lists[ki[1]])
        /\ q.lists[ki[1]][ki[2]].sessionId = s}

InQueue(q, s) == EntriesOf(q, s) # {}

ListEntries(list) == {list[i] : i \in 1..Len(list)}

(***************************************************************************)
(* Properties of ChatService (specification Spec).                         *)
(***************************************************************************)

\* C1: a session held by agent a (status 'agent', assignedAgent = a) cannot be
\* claimed by a different agent b: assignSessionToAgent(s, b) returns false and
\* leaves s assigned to a.
C1_NoSecondClaim ==
    \A s \in SessionIds, b \in AgentIds :
        (sessions[s].status = "agent" /\ sessions[s].assignedAgent # b) =>
            /\ ~CsAssignResult(CsState, s, b)
            /\ CsAssignSessionToAgent(CsState, s, b).db.sessions[s] = sessions[s]

\* C2: after any sequence of completed ChatService calls a session id has an
\* entry in one of the three priority lists iff its stored status is 'waiting'.
C2_QueuedIffWaiting ==
    \A s \in SessionIds : InQueue(QState, s) <=> sessions[s].status = "waiting"

\* C7: once a session's status is 'closed', no later operation changes it.
C7_ClosedIsTerminal ==
    [][\A s \in SessionIds :
          sessions[s].status = "closed" => sessions'[s].status = "closed"]_vars

\* C8: with no operation in progress, a session's assignedAgent is non-null
\* iff its status is 'agent'.
C8_AssignedIffAgent ==
    \A s \in SessionIds :
        sessions[s] # NoSession =>
            (sessions[s].assignedAgent # 0 <=> sessions[s].status = "agent")

(***************************************************************************)
(* Properties of QueueService (specification SpecQ).                       *)
(***************************************************************************)

\* C3: every session id occurs at most once across the high, normal and low
\* lists taken together.
C3_AtMostOneEntry ==
    \A s \in SessionIds : Cardinality(EntriesOf(QState, s)) <= 1

\* C4: getNextInQueue returns an entry of the high list whenever that list is
\* non-empty, otherwise of the normal list whenever that is non-empty,
\* otherwise of the low list (null when all are empty), and removes that
\* entry from its list, whatever the order in which the entries were added.
C4_PriorityOrder ==
    LET high == lists[HIGH_PRIORITY_QUEUE]
        normal == lists[NORMAL_PRIORITY_QUEUE]
        low == lists[LOW_PRIORITY_QUEUE]
        e == QNextEntry(QState)
        after == QGetNextInQueue(QState).lists
        From(k) == /\ e \in ListEntries(lists[k])
                   /\ Len(after[k]) = Len(lists[k]) - 1
                   /\ ListEntries(after[k]) = ListEntries(lists[k]) \ {e}
                   /\ \A other \in QueueKeys \ {k} : after[other] = lists[other]
    IN IF high # <<>> THEN From(HIGH_PRIORITY_QUEUE)
       ELSE IF normal # <<>> THEN From(NORMAL_PRIORITY_QUEUE)
       ELSE IF low # <<>> THEN From(LOW_PRIORITY_QUEUE)
       ELSE e = NoEntry /\ after = lists

\* C4 witness: a high entry was returned while an older normal entry waits.
C4_Witness ==
    /\ popLog # <<>>
    /\ popLog[Len(popLog)].priority = "high"
    /\ \E n \in ListEntries(lists[NORMAL_PRIORITY_QUEUE]) :
           n.requestedAt < popLog[Len(popLog)].requestedAt

\* C5: entries of the same priority are returned by getNextInQueue in the
\* order of their addToQueue calls, oldest first: the returned entries of one
\* priority are in call order, and no entry still queued was added before a
\* returned entry of its priority.
C5_FifoWithinPriority ==
    /\ \A i, j \in 1..Len(popLog) :
           (i < j /\ popLog[i].priority = popLog[j].priority) =>
               popLog[i].requestedAt < popLog[j].requestedAt
    /\ \A k \in QueueKeys, i \in 1..Len(popLog) :
           \A e \in ListEntries(lists[k]) :
               e.priority = popLog[i].priority =>
                   popLog[i].requestedAt < e.requestedAt
    /\ \A k \in QueueKeys : lists[k] # <<>> =>
           \A e \in ListEntries(lists[k]) :
               e.priority = QNextEntry(QState).priority =>
                   QNextEntry(QState).requestedAt <= e.requestedAt

\* C5 witness: S1(high), S2(normal), S3(high) were added in that order and
\* three calls returned S1, S3, S2.
C5_Witness ==
    /\ Len(popLog) = 3
    /\ popLog[1] = QueueEntry(1, "escalation", "high", 1)
    /\ popLog[2] = QueueEntry(3, "escalation", "high", 3)
    /\ popLog[3] = QueueEntry(2, "escalation", "normal", 2)

(***************************************************************************)
(* Properties of the in-memory ChatManager.                                *)
(***************************************************************************)
\* the activeSessions list of an agent (empty for an id with no agent)
ActiveOf(a) ==
    IF AgentExists(cmAgents[a]) THEN cmAgents[a].activeSessions ELSE <<>>

\* the number of times x occurs in seq
Occurrences(seq, x) == Cardinality({i \in 1..Len(seq) : seq[i] = x})

\* C6 (specification SpecCMRef): after any sequence of transferToQueue,
\* removeAgent, removeFromQueue and getNextInQueue calls, getNextInQueue of
\* the ChatManager returns the session that the three-lane queue (high before
\* normal before low, insertion order within a lane) returns for the same
\* sequence.
C6_SameAsReference ==
    CmNextSession(CmState) =
        (IF QNextEntry(QState) = NoEntry THEN 0
         ELSE QNextEntry(QState).sessionId)

\* C9 (specification SpecCM): a session id is in agent A's activeSessions iff
\* the session has status 'agent' and assignedAgent = A, and it is there at
\* most once.
C9_ActiveIffAssigned ==
    \A s \in SessionIds, a \in AgentIds :
        /\ Occurrences(ActiveOf(a), s) > 0 <=>
               (cmSessions[s].status = "agent" /\ cmSessions[s].assignedAgent = a)
        /\ Occurrences(ActiveOf(a), s) <= 1

\* C10 (specification SpecCM): a session whose status is 'closed' has no
\* entry in transferQueue and is in no agent's activeSessions.
C10_ClosedIsNowhere ==
    \A s \in SessionIds :
        cmSessions[s].status = "closed" =>
            /\ FirstFrom(transferQueue, 1, s) = 0
            /\ \A a \in AgentIds : Occurrences(ActiveOf(a), s) = 0

(***************************************************************************)
(* Further properties of ChatService (specification Spec).                 *)
(***************************************************************************)
\* the entries a session id has in the three lists
SessionEntries(q, s) ==
    UNION {{<<k, i>> : i \in {j \in 1..Len(q.lists[k]) :
                                  q.lists[k][j].sessionId = s}} : k \in QueueKeys}

\* C11: if agent A holds sessions S1..Sn (status 'agent', assignedAgent = A)
\* and removeAgent(A) runs to completion, every Si has status 'waiting', no
\* assigned agent and exactly one queue entry, of priority 'normal' with the
\* agent-disconnected reason, and A no longer exists.
C11_RemoveAgentRequeues ==
    \A a \in AgentIds :
        AgentExists(agents[a]) =>
            \A order \in Orders(DbGetAgentActiveSessions(DbState, a)) :
                LET after == CsRemoveAgent(CsState, a, order)
                IN /\ ~AgentExists(after.db.agents[a])
                   /\ \A s \in DbGetAgentActiveSessions(DbState, a) :
                          /\ after.db.sessions[s] =
                                 [status |-> "waiting", assignedAgent |-> 0]
                          /\ Cardinality(SessionEntries(after.q, s)) = 1
                          /\ \A ki \in SessionEntries(after.q, s) :
                                 LET e == after.q.lists[ki[1]][ki[2]]
                                 IN /\ e.priority = "normal"
                                    /\ e.reason = "Agent disconnected"

(***************************************************************************)
(* ChatService with two calls in progress at once.  Every awaited call on  *)
(* dbService or queueService is one step; a call keeps what it read        *)
(* (session, todo) between its steps.  The stores are first brought to     *)
(* some state by calls that run alone.                                     *)
(***************************************************************************)
AllIdle == \A c \in CallIds : calls[c] = IdleCall

Running(c, op, pc) == calls[c].op \in op /\ calls[c].pc = pc

Goto(c, pc) == calls' = [calls EXCEPT ![c].pc = pc]

Finish(c, result) ==
    calls' = [calls EXCEPT ![c].pc = "done", ![c].result = result]

\* the session a transferToQueue in progress works on: its argument, or the
\* current element of removeAgent's loop
Current(c) ==
    IF calls[c].op = "removeAgent" THEN Head(calls[c].todo)
    ELSE calls[c].sessionId

\* leaving transferToQueue: the call is over, or removeAgent's loop goes on
Returned(c) ==
    IF calls[c].op # "removeAgent" THEN [calls[c] EXCEPT !.pc = "done"]
    ELSE [calls[c] EXCEPT !.todo = Tail(@),
                          !.pc = IF Tail(calls[c].todo) = <<>>
                                 THEN "removeAgent" ELSE "getSession"]

SetupCreateSession(id) == AllIdle /\ CreateSession(id)
SetupAddAgent(id) == AllIdle /\ AddAgent(id)
SetupTransferToQueue(sessionId) ==
    AllIdle /\ TransferToQueue(sessionId, "escalation", "normal")
SetupAssignSessionToAgent(sessionId, agentId) ==
    AllIdle /\ AssignSessionToAgent(sessionId, agentId)

\* ids are interchangeable (uuids): the second call's session and agent are
\* fixed, the first call's and the stores' are not
ClaimedId == CHOOSE s \in CreatableIds : \A o \in CreatableIds : s <= o
ClaimingAgent == CHOOSE a \in AgentIds : \A o \in AgentIds : a <= o

\* the two calls start together; their steps interleave from here on
Begin(first, second) ==
    /\ AllIdle
    /\ calls' = [calls EXCEPT ![1] = first, ![2] = second]
    /\ UNCHANGED <<qVars, dbVars, cmVars, popLog, socketIo>>

CallCloseSession(sessionId) ==
    [IdleCall EXCEPT !.op = "closeSession", !.pc = "getSession",
                     !.sessionId = sessionId]
CallRemoveAgent(agentId) ==
    [IdleCall EXCEPT !.op = "removeAgent", !.pc = "getAgent",
                     !.agentId = agentId]
CallAssignSessionToAgent(sessionId, agentId) ==
    [IdleCall EXCEPT !.op = "assignSessionToAgent", !.pc = "getSession",
                     !.sessionId = sessionId, !.agentId = agentId]
CallTransferToQueue(sessionId) ==
    [IdleCall EXCEPT !.op = "transferToQueue", !.pc = "getSession",
                     !.sessionId = sessionId]

\* transferToQueue (also as called by removeAgent)
TransferGetSession(c) ==
    /\ Running(c, {"transferToQueue", "removeAgent"}, "getSession")
    /\ calls' = [calls EXCEPT ![c] =
                    IF sessions[Current(c)] = NoSession THEN Returned(c)
                    ELSE [@ EXCEPT !.pc = "updateSessionStatus"]]
    /\ UNCHANGED <<qVars, dbVars, cmVars, popLog, socketIo>>

TransferUpdateSessionStatus(c) ==
    /\ Running(c, {"transferToQueue", "removeAgent"}, "updateSessionStatus")
    /\ SetDb(DbUpdateSessionStatus(DbState, Current(c), "waiting"))
    /\ Goto(c, "addToQueue")
    /\ UNCHANGED <<qVars, cmVars, popLog, socketIo>>

TransferAddToQueue(c) ==
    /\ Running(c, {"transferToQueue", "removeAgent"}, "addToQueue")
    /\ SetQ(QAddToQueue(QState, Current(c),
                        IF calls[c].op = "removeAgent"
                        THEN "Agent disconnected" ELSE "escalation",
                        "normal"))
    /\ calls' = [calls EXCEPT ![c] = Returned(c)]
    /\ UNCHANGED <<dbVars, cmVars, popLog, socketIo>>

\* removeAgent
RemoveGetAgent(c) ==
    /\ Running(c, {"removeAgent"}, "getAgent")
    /\ IF AgentExists(agents[calls[c].agentId])
       THEN Goto(c, "getAgentActiveSessions") ELSE Finish(c, FALSE)
    /\ UNCHANGED <<qVars, dbVars, cmVars, popLog, socketIo>>

RemoveGetAgentActiveSessions(c) ==
    /\ Running(c, {"removeAgent"}, "getAgentActiveSessions")
    /\ \E assignedSessions \in
              Orders(DbGetAgentActiveSessions(DbState, calls[c].agentId)) :
           calls' = [calls EXCEPT ![c].todo = assignedSessions,
                                  ![c].pc = IF assignedSessions = <<>>
                                            THEN "removeAgent"
                                            ELSE "getSession"]
    /\ UNCHANGED <<qVars, dbVars, cmVars, popLog, socketIo>>

RemoveDbRemoveAgent(c) ==
    /\ Running(c, {"removeAgent"}, "removeAgent")
    /\ SetDb(DbRemoveAgent(DbState, calls[c].agentId))
    /\ Finish(c, TRUE)
    /\ UNCHANGED <<qVars, cmVars, popLog, socketIo>>

\* assignSessionToAgent
AssignGetSession(c) ==
    /\ Running(c, {"assignSessionToAgent"}, "getSession")
    /\ calls' = [calls EXCEPT ![c].session = sessions[calls[c].sessionId],
                              ![c].pc = "getAgent"]
    /\ UNCHANGED <<qVars, dbVars, cmVars, popLog, socketIo>>

AssignGetAgent(c) ==
    /\ Running(c, {"assignSessionToAgent"}, "getAgent")
    /\ IF calls[c].session = NoSession
          \/ ~AgentExists(agents[calls[c].agentId])
       THEN Finish(c, FALSE) ELSE Goto(c, "assignSessionToAgent")
    /\ UNCHANGED <<qVars, dbVars, cmVars, popLog, socketIo>>

AssignDbAssign(c) ==
    /\ Running(c, {"assignSessionToAgent"}, "assignSessionToAgent")
    /\ SetDb(DbAssignSessionToAgent(DbState, calls[c].sessionId,
                                    calls[c].agentId))
    /\ IF DbAssignOk(DbState, calls[c].sessionId, calls[c].agentId)
       THEN Goto(c, "removeFromQueue") ELSE Finish(c, FALSE)
    /\ UNCHANGED <<qVars, cmVars, popLog, socketIo>>

AssignRemoveFromQueue(c) ==
    /\ Running(c, {"assignSessionToAgent"}, "removeFromQueue")
    /\ SetQ(QRemoveFromQueue(QState, calls[c].sessionId))
    /\ Goto(c, "updateAgentStatus")
    /\ UNCHANGED <<dbVars, cmVars, popLog, socketIo>>

AssignUpdateAgentStatus(c) ==
    /\ Running(c, {"assignSessionToAgent"}, "updateAgentStatus")
    /\ SetDb(DbUpdateAgentStatus(DbState, calls[c].agentId, "busy"))
    /\ Finish(c, TRUE)
    /\ UNCHANGED <<qVars, cmVars, popLog, socketIo>>

\* closeSession
CloseGetSession(c) ==
    /\ Running(c, {"closeSession"}, "getSession")
    /\ calls' = [calls EXCEPT ![c].session = sessions[calls[c].sessionId],
                              ![c].pc = IF sessions[calls[c].sessionId] =
                                             NoSession
                                        THEN "done" ELSE "closeSession"]
    /\ UNCHANGED <<qVars, dbVars, cmVars, popLog, socketIo>>

\* where closeSession goes after the queue has been dealt with
AfterQueue(c) ==
    IF calls[c].session.assignedAgent # 0 THEN "getAgentActiveSessions"
    ELSE "done"

CloseDbCloseSession(c) ==
    /\ Running(c, {"closeSession"}, "closeSession")
    /\ SetDb(DbCloseSession(DbState, calls[c].sessionId))
    /\ Goto(c, IF calls[c].session.status = "waiting"
               THEN "removeFromQueue" ELSE AfterQueue(c))
    /\ UNCHANGED <<qVars, cmVars, popLog, socketIo>>

CloseRemoveFromQueue(c) ==
    /\ Running(c, {"closeSession"}, "removeFromQueue")
    /\ SetQ(QRemoveFromQueue(QState, calls[c].sessionId))
    /\ Goto(c, AfterQueue(c))
    /\ UNCHANGED <<dbVars, cmVars, popLog, socketIo>>

CloseGetAgentActiveSessions(c) ==
    /\ Running(c, {"closeSession"}, "getAgentActiveSessions")
    /\ Goto(c, IF DbGetAgentActiveSessions(
                      DbState, calls[c].session.assignedAgent) = {}
               THEN "updateAgentStatus" ELSE "done")
    /\ UNCHANGED <<qVars, dbVars, cmVars, popLog, socketIo>>

CloseUpdateAgentStatus(c) ==
    /\ Running(c, {"closeSession"}, "updateAgentStatus")
    /\ SetDb(DbUpdateAgentStatus(DbState, calls[c].session.assignedAgent,
                                 "available"))
    /\ Goto(c, "done")
    /\ UNCHANGED <<qVars, cmVars, popLog, socketIo>>

AsyncNext ==
    \/ \E s \in CreatableIds : SetupCreateSession(s)
    \/ \E a \in AgentIds : SetupAddAgent(a)
    \/ \E s \in CreatableIds : SetupTransferToQueue(s)
    \/ \E s \in CreatableIds, a \in AgentIds : SetupAssignSessionToAgent(s, a)
    \/ \E first \in {CallCloseSession(s) : s \in CreatableIds}
                     \cup {CallRemoveAgent(a) : a \in AgentIds},
          second \in {CallAssignSessionToAgent(ClaimedId, ClaimingAgent),
                      CallTransferToQueue(ClaimedId)} :
           Begin(first, second)
    \/ \E c \in CallIds :
           \/ TransferGetSession(c)
           \/ TransferUpdateSessionStatus(c)
           \/ TransferAddToQueue(c)
           \/ RemoveGetAgent(c)
           \/ RemoveGetAgentActiveSessions(c)
           \/ RemoveDbRemoveAgent(c)
           \/ AssignGetSession(c)
           \/ AssignGetAgent(c)
           \/ AssignDbAssign(c)
           \/ AssignRemoveFromQueue(c)
           \/ AssignUpdateAgentStatus(c)
           \/ CloseGetSession(c)
           \/ CloseDbCloseSession(c)
           \/ CloseRemoveFromQueue(c)
           \/ CloseGetAgentActiveSessions(c)
           \/ CloseUpdateAgentStatus(c)

SpecAsync == Init /\ [][AsyncNext]_vars

(***************************************************************************)
(* Properties of concurrent ChatService calls (specification SpecAsync).   *)
(***************************************************************************)
BothDone == \A c \in CallIds : calls[c].pc = "done"

\* C12: once removeAgent(A) and a concurrent assignSessionToAgent(s, A) have
\* both completed, s is neither left with status 'agent' assigned to the
\* removed agent A nor left with status 'waiting' without a queue entry.
C12_RemoveVersusAssign ==
    (/\ BothDone
     /\ calls[1].op = "removeAgent"
     /\ calls[1].result
     /\ calls[2].op = "assignSessionToAgent"
     /\ calls[2].agentId = calls[1].agentId) =>
        LET s == calls[2].sessionId
            A == calls[1].agentId
        IN /\ ~(sessions[s].status = "agent" /\ sessions[s].assignedAgent = A)
           /\ ~(sessions[s].status = "waiting"
                /\ SessionEntries(QState, s) = {})

\* C13: once closeSession(s) and a concurrent assignSessionToAgent(s, a) or
\* transferToQueue(s) have both completed, s has status 'closed', has no
\* queue entry and is not among any agent's active sessions.
C13_CloseVersusClaimOrTransfer ==
    (/\ BothDone
     /\ calls[1].op = "closeSession"
     /\ calls[1].session # NoSession
     /\ calls[2].op \in {"assignSessionToAgent", "transferToQueue"}
     /\ calls[2].sessionId = calls[1].sessionId) =>
        LET s == calls[1].sessionId
        IN /\ sessions[s].status = "closed"
           /\ SessionEntries(QState, s) = {}
           /\ \A a \in AgentIds : s \notin DbGetAgentActiveSessions(DbState, a)

(***************************************************************************)
(* Further properties of the in-memory ChatManager (specification SpecCM). *)
(***************************************************************************)
\* the transferQueue entries of a session
CmEntriesOf(queue, s) == {i \in 1..Len(queue) : queue[i].sessionId = s}

\* C14: transferToQueue(S, r, 'high') followed by transferToQueue(S, r,
\* 'normal') with no claim in between leaves exactly one entry for S in
\* transferQueue, and that entry has priority 'normal'.
C14_ReEscalationUpdatesInPlace ==
    \A s \in SessionIds :
        cmSessions[s] # NoSession =>
            LET after == CmTransferToQueue(
                             CmTransferToQueue(CmState, s, "escalation", "high"),
                             s, "escalation", "normal")
            IN /\ Cardinality(CmEntriesOf(after.queue, s)) = 1
               /\ \A i \in CmEntriesOf(after.queue, s) :
                      after.queue[i].priority = "normal"

\* C18: transferToQueue on a session whose status is 'closed' is a no-op: the
\* session stays 'closed' and transferQueue is unchanged.
C18_TransferOfClosedIsNoOp ==
    \A s \in SessionIds, p \in PrioritySet :
        cmSessions[s].status = "closed" =>
            LET after == CmTransferToQueue(CmState, s, "escalation", p)
            IN /\ after.sessions[s].status = "closed"
               /\ after.queue = transferQueue

(***************************************************************************)
(* Further properties of ChatService, continued (specification Spec).      *)
(***************************************************************************)
\* C15: closeSession(s) called twice in a row leaves the same session
\* status, queue contents and agent statuses as calling it once.
C15_CloseTwiceIsCloseOnce ==
    \A s \in SessionIds :
        LET once == CsCloseSession(CsState, s)
            twice == CsCloseSession(once, s)
        IN /\ twice.db.sessions = once.db.sessions
           /\ twice.q.lists = once.q.lists
           /\ twice.q.meta = once.q.meta
           /\ twice.db.agents = once.db.agents

\* C15 witness: a session that was waiting in the queue while still assigned
\* to a busy agent can be closed, which empties the agent's workload, takes
\* the entry out of its list and sets the agent available.
C15_Witness ==
    \E s \in SessionIds :
        LET once == CsCloseSession(CsState, s)
            a == sessions[s].assignedAgent
        IN /\ sessions[s].status = "waiting"
           /\ a # 0
           /\ agents[a].status = "busy"
           /\ once.db.sessions[s].status = "closed"
           /\ once.db.agents[a].status = "available"
           /\ once.q.lists # lists
           /\ \E o \in SessionIds : sessions[o].status = "closed"

(***************************************************************************)
(* ChatService, claims only: sessions are created, agents join and claim.  *)
(* Every session id may be created.                                        *)
(***************************************************************************)
\* the number of active sessions getAvailableAgent compares with
AgentCapacity == 3

ClaimsCreateSession(id) ==
    /\ sessions[id] = NoSession
    /\ SetDb(DbCreateSession(DbState, id))
    /\ UNCHANGED <<qVars, cmVars, popLog, calls, socketIo>>

ClaimsNext ==
    \/ \E s \in SessionIds : ClaimsCreateSession(s)
    \/ \E a \in AgentIds : AddAgent(a)
    \/ \E s \in SessionIds, a \in AgentIds : AssignSessionToAgent(s, a)

SpecClaims == Init /\ [][ClaimsNext]_vars

\* C16: no agent ever has more than 3 sessions assigned at once (status
\* 'agent' and assignedAgent = that agent), whatever sequence of
\* assignSessionToAgent calls is made.
C16_AtMostThreePerAgent ==
    \A a \in AgentIds :
        Cardinality(DbGetAgentActiveSessions(DbState, a)) <= AgentCapacity

\* C17 (specification Spec): assignSessionToAgent(s, a) for an existing
\* session s that has no queue entry (status 'bot', 'agent' or 'closed')
\* returns false and leaves the session, the queue and the agent unchanged.
C17_ClaimNeedsQueueEntry ==
    \A s \in SessionIds, a \in AgentIds :
        (/\ sessions[s].status \in {"bot", "agent", "closed"}
         /\ SessionEntries(QState, s) = {}) =>
            /\ ~CsAssignResult(CsState, s, a)
            /\ CsAssignSessionToAgent(CsState, s, a) = CsState

(***************************************************************************)
(* Further properties of QueueService (specification SpecQ).               *)
(***************************************************************************)
\* which of successive getNextInQueue calls, counted from k, returns session
\* s first (0 if none does)
RECURSIVE PopIndex(_, _, _)
PopIndex(q, s, k) ==
    IF QNextEntry(q) = NoEntry THEN 0
    ELSE IF QNextEntry(q).sessionId = s THEN k
    ELSE PopIndex(QGetNextInQueue(q), s, k + 1)

\* C19: in a state where every queued session has exactly one list entry,
\* getQueuePosition(s) = k exactly when s is the session returned by the
\* k-th of successive getNextInQueue calls.
C19_PositionIsPopRank ==
    (\A s \in SessionIds : Cardinality(SessionEntries(QState, s)) <= 1) =>
        \A s \in SessionIds, k \in 1..QGetQueueLength(QState) :
            QGetQueuePosition(QState, s) = k <=> PopIndex(QState, s, 1) = k

\* C20: getQueuePosition(s) returns 0 iff s has no entry in any of the three
\* lists; for every session that has a list entry it returns at least 1.
C20_PositionZeroIffAbsent ==
    \A s \in SessionIds :
        /\ QGetQueuePosition(QState, s) = 0 <=> SessionEntries(QState, s) = {}
        /\ SessionEntries(QState, s) # {} => QGetQueuePosition(QState, s) >= 1

\* C21: after removeFromQueue(s) returns, s has no entry in any of the three
\* lists; the call returns true exactly when an entry for s was present and
\* removed, and an immediately repeated call returns false and changes
\* nothing.
C21_RemoveRemovesAll ==
    \A s \in SessionIds :
        LET after == QRemoveFromQueue(QState, s)
        IN /\ SessionEntries(after, s) = {}
           /\ QRemoved(QState, s) <=> SessionEntries(QState, s) # {}
           /\ ~QRemoved(after, s)
           /\ QRemoveFromQueue(after, s) = after

(***************************************************************************)
(* Store failures.  A failed store call rejects: a Redis MULTI that        *)
(* rejects applies none of its commands, a failed ledger statement changes *)
(* no row, and the method is left at that await with an exception.         *)
(***************************************************************************)
\* addToQueue when multi.exec() rejects: nothing is pushed, the ledger insert
\* is not reached
QAddToQueueRedisDown(q, sessionId, reason, priority) == q

\* transferToQueue when Redis is down: the status has been written before
\* addToQueue is awaited; the catch block logs and rethrows
CsTransferToQueueRedisDown(st, sessionId, reason, priority) ==
    IF st.db.sessions[sessionId] = NoSession THEN st
    ELSE [db |-> DbUpdateSessionStatus(st.db, sessionId, "waiting"),
          q |-> QAddToQueueRedisDown(st.q, sessionId, reason, priority)]

\* whether that transferToQueue throws to its caller
CsTransferToQueueThrows(st, sessionId) == st.db.sessions[sessionId] # NoSession

\* getNextInQueue when the ledger update rejects: rpop, hdel and srem have
\* been applied, the ledger row is untouched
QGetNextInQueueLedgerDown(q) ==
    LET p == FirstNonEmpty(q, 1)
        queueKey == GetPriorityQueueKey(p)
        e == QNextEntry(q)
    IN IF p = "" THEN q
       ELSE [q EXCEPT !.lists[queueKey] = RPopRest(@),
                      !.meta[e.sessionId] = NoEntry,
                      !.active = @ \ {e.sessionId}]

\* what that getNextInQueue hands to its caller: nothing when it throws
QNextEntryLedgerDown(q) == NoEntry

TransferToQueueRedisDown(sessionId, reason, priority) ==
    /\ SetCs(CsTransferToQueueRedisDown(CsState, sessionId, reason, priority))
    /\ UNCHANGED <<cmVars, popLog, calls, socketIo>>

\* ChatService.getNextInQueue
NextInQueue ==
    /\ SetQ(QGetNextInQueue(QState))
    /\ UNCHANGED <<dbVars, cmVars, popLog, calls, socketIo>>

NextInQueueLedgerDown ==
    /\ SetQ(QGetNextInQueueLedgerDown(QState))
    /\ UNCHANGED <<dbVars, cmVars, popLog, calls, socketIo>>

FaultsNext ==
    \/ \E s \in SessionIds : CreateSession(s)
    \/ \E a \in AgentIds : AddAgent(a)
    \/ \E s \in SessionIds, p \in PrioritySet :
           TransferToQueue(s, "escalation", p)
    \/ \E s \in SessionIds, p \in PrioritySet :
           TransferToQueueRedisDown(s, "escalation", p)
    \/ NextInQueue
    \/ NextInQueueLedgerDown
    \/ \E s \in SessionIds, a \in AgentIds : AssignSessionToAgent(s, a)

SpecFaults == Init /\ [][FaultsNext]_vars

\* C22 (specification SpecFaults): if Redis fails during transferToQueue(s),
\* the error is surfaced to the caller and s keeps the status it had before
\* the call; s is not left with status 'waiting' and no queue entry.
C22_FailedTransferKeepsStatus ==
    \A s \in SessionIds, p \in PrioritySet :
        sessions[s] # NoSession =>
            LET after == CsTransferToQueueRedisDown(CsState, s, "escalation", p)
            IN /\ CsTransferToQueueThrows(CsState, s)
               /\ after.db.sessions[s].status = sessions[s].status
               /\ ~(after.db.sessions[s].status = "waiting"
                    /\ SessionEntries(after.q, s) = {})

\* C23 (specification SpecFaults): if the ledger update inside
\* getNextInQueue fails after an entry has been popped from its list, the
\* popped entry is still returned to the caller or is restored to its lane.
C23_LedgerFailureLosesNothing ==
    QNextEntry(QState) # NoEntry =>
        LET e == QNextEntry(QState)
            after == QGetNextInQueueLedgerDown(QState)
        IN \/ QNextEntryLedgerDown(QState) = e
           \/ after.lists[GetPriorityQueueKey(e.priority)] =
                  lists[GetPriorityQueueKey(e.priority)]

\* C24 (specification SpecFaults): when a claim pops an entry with
\* getNextInQueue and the following assignSessionToAgent for that session
\* does not succeed, the popped entry is put back at the front of its lane,
\* so the session still has a queue entry afterwards.
C24_FailedClaimPutsBack ==
    \A a \in AgentIds :
        LET e == QNextEntry(QState)
            popped == [db |-> DbState, q |-> QGetNextInQueue(QState)]
            after == CsAssignSessionToAgent(popped, e.sessionId, a)
        IN (e # NoEntry /\ ~CsAssignResult(popped, e.sessionId, a)) =>
               /\ QNextEntry(after.q) = e
               /\ SessionEntries(after.q, e.sessionId) # {}

(***************************************************************************)
(* QueueService.getNextInQueue one Redis command at a time, with           *)
(* addToQueue calls (whose MULTI is atomic) arriving in between.  The call *)
(* in progress keeps the priorities still to try in todo and the session   *)
(* of the popped entry in sessionId.                                       *)
(***************************************************************************)
PopBegin(c) ==
    /\ calls[c] = IdleCall
    /\ calls' = [calls EXCEPT ![c] =
                    [IdleCall EXCEPT !.op = "getNextInQueue", !.pc = "rpop",
                                     !.todo = PopOrder]]
    /\ UNCHANGED <<qVars, dbVars, cmVars, popLog, socketIo>>

\* redis.rpop(queueKey) of the loop's current priority
PopRPop(c) ==
    LET queueKey == GetPriorityQueueKey(Head(calls[c].todo))
    IN /\ Running(c, {"getNextInQueue"}, "rpop")
       /\ IF lists[queueKey] # <<>>
          THEN /\ lists' = [lists EXCEPT ![queueKey] = RPopRest(@)]
               /\ calls' = [calls EXCEPT
                               ![c].sessionId = RPopValue(lists[queueKey]).sessionId,
                               ![c].pc = "hdel"]
          ELSE /\ lists' = lists
               /\ calls' = [calls EXCEPT
                               ![c] = IF Tail(calls[c].todo) = <<>>
                                      THEN IdleCall
                                      ELSE [@ EXCEPT !.todo = Tail(@)]]
       /\ UNCHANGED <<queueMetadata, redisActiveSessions, ledger, now,
                      dbVars, cmVars, popLog, socketIo>>

PopHDel(c) ==
    /\ Running(c, {"getNextInQueue"}, "hdel")
    /\ queueMetadata' = [queueMetadata EXCEPT ![calls[c].sessionId] = NoEntry]
    /\ Goto(c, "srem")
    /\ UNCHANGED <<lists, redisActiveSessions, ledger, now, dbVars, cmVars,
                   popLog, socketIo>>

PopSRem(c) ==
    /\ Running(c, {"getNextInQueue"}, "srem")
    /\ redisActiveSessions' = redisActiveSessions \ {calls[c].sessionId}
    /\ Goto(c, "update")
    /\ UNCHANGED <<lists, queueMetadata, ledger, now, dbVars, cmVars, popLog, socketIo>>

\* db.update(transferQueue); the entry is returned
PopUpdateLedger(c) ==
    /\ Running(c, {"getNextInQueue"}, "update")
    /\ ledger' = [ledger EXCEPT ![calls[c].sessionId] =
                     IF @ = "none" THEN "none" ELSE "processed"]
    /\ calls' = [calls EXCEPT ![c] = IdleCall]
    /\ UNCHANGED <<lists, queueMetadata, redisActiveSessions, now, dbVars,
                   cmVars, popLog, socketIo>>

RedisNext ==
    \/ \E s \in CreatableIds, p \in PrioritySet : AddToQueue(s, "escalation", p)
    \/ PopBegin(1)
    \/ PopRPop(1)
    \/ PopHDel(1)
    \/ PopSRem(1)
    \/ PopUpdateLedger(1)

SpecRedis == Init /\ [][RedisNext]_vars

\* C25 (specification SpecRedis): with addToQueue calls running concurrently,
\* getNextInQueue never pops a normal or low entry at a moment when the high
\* list is non-empty, and never pops a low entry at a moment when the normal
\* list is non-empty.
C25_NeverSkipsHigherLane ==
    [][/\ Len(lists'[NORMAL_PRIORITY_QUEUE]) < Len(lists[NORMAL_PRIORITY_QUEUE])
          => lists[HIGH_PRIORITY_QUEUE] = <<>>
       /\ Len(lists'[LOW_PRIORITY_QUEUE]) < Len(lists[LOW_PRIORITY_QUEUE])
          => (lists[HIGH_PRIORITY_QUEUE] = <<>>
              /\ lists[NORMAL_PRIORITY_QUEUE] = <<>>)]_vars

\* C26 (specification Spec): calling removeAgent(A) again after a first call
\* has completed is a no-op: no session changes status and no session gains
\* a queue entry.
C26_SecondRemoveAgentIsNoOp ==
    \A a \in AgentIds :
        agents[a] = DeletedAgentRow =>
            \A assignedSessions \in Orders(DbGetAgentActiveSessions(DbState, a)) :
                LET after == CsRemoveAgent(CsState, a, assignedSessions)
                IN /\ after.db.sessions = sessions
                   /\ after.q.lists = lists
                   /\ after.q.meta = queueMetadata

\* C26 witness: removeAgent(A) has completed and a session it drained waits
\* in the normal list with the agent-disconnected reason.
C26_Witness ==
    \E a \in AgentIds, s \in SessionIds :
        /\ agents[a] = DeletedAgentRow
        /\ sessions[s] = [status |-> "waiting", assignedAgent |-> 0]
        /\ \E e \in ListEntries(lists[NORMAL_PRIORITY_QUEUE]) :
               e.sessionId = s /\ e.reason = "Agent disconnected"
        /\ \A assignedSessions \in Orders(DbGetAgentActiveSessions(DbState, a)) :
               CsRemoveAgent(CsState, a, assignedSessions) = CsState

(***************************************************************************)
(* ChatService.clearQueue, reached from the admin:clear_queue handler.     *)
(* process.env.NODE_ENV is an input of the call.                           *)
(***************************************************************************)
NodeEnvs == {"development", "production", "undefined"}

\* clearQueue without the environment check
CsClearQueueAnyEnv(st, nodeEnv) == [st EXCEPT !.q = QClearQueue(st.q)]

CsClearQueue(st, nodeEnv) ==
    IF nodeEnv # "development" THEN st
    ELSE [st EXCEPT !.q = QClearQueue(st.q)]

\* the number clearQueue resolves to
CsClearQueueResult(st, nodeEnv) ==
    IF nodeEnv # "development" THEN 0 ELSE QGetQueueLength(st.q)

ClearQueue(nodeEnv) ==
    /\ SetCs(CsClearQueue(CsState, nodeEnv))
    /\ UNCHANGED <<cmVars, popLog, calls, socketIo>>

AdminNext ==
    \/ \E s \in SessionIds : CreateSession(s)
    \/ \E s \in SessionIds, r \in {"escalation"}, p \in PrioritySet :
           TransferToQueue(s, r, p)
    \/ \E s \in SessionIds : CloseSession(s)
    \/ \E nodeEnv \in NodeEnvs : ClearQueue(nodeEnv)

SpecAdmin == Init /\ [][AdminNext]_vars

\* C27 (specification SpecAdmin): when NODE_ENV is not 'development',
\* clearQueue returns 0 and leaves the three priority lists, the queue
\* metadata and every session's status unchanged.
C27_ClearQueueRefusedOutsideDevelopment ==
    \A nodeEnv \in NodeEnvs \ {"development"} :
        LET after == CsClearQueue(CsState, nodeEnv)
        IN /\ CsClearQueueResult(CsState, nodeEnv) = 0
           /\ after.q.lists = lists
           /\ after.q.meta = queueMetadata
           /\ after.db.sessions = sessions

\* C27 witness: sessions are queued, so a clearQueue in development would
\* empty the lists, and the call in production changes nothing.
C27_Witness ==
    /\ QGetQueueLength(QState) = 2
    /\ CsClearQueueResult(CsState, "development") = 2
    /\ CsClearQueue(CsState, "development").q.lists # lists
    /\ CsClearQueue(CsState, "production") = CsState
    /\ CsClearQueueResult(CsState, "production") = 0

\* C28 (specification Spec): with no operation in progress, a registered
\* agent's stored status is 'busy' exactly when at least one session has
\* status 'agent' with assignedAgent naming it, and 'available' exactly when
\* there is none.
C28_BusyIffHoldsSession ==
    \A a \in AgentIds :
        AgentExists(agents[a]) =>
            /\ agents[a].status = "busy"
                   <=> DbGetAgentActiveSessions(DbState, a) # {}
            /\ agents[a].status = "available"
                   <=> DbGetAgentActiveSessions(DbState, a) = {}

(***************************************************************************)
(* ChatService.getAvailableAgent.  The agents rows carry joined_at, the    *)
(* column the select orders by; closeSession runs one awaited store call   *)
(* per step while sessions are created and claimed, so that its write of   *)
(* 'available' can land after the agent has been given further sessions.   *)
(* No session is queued here, so closeSession never reaches its            *)
(* removeFromQueue.                                                        *)
(***************************************************************************)
\* INSERT INTO agents: status 'available', joined_at DEFAULT now()
DbCreateAgentAt(d, id, joinedAt) ==
    [d EXCEPT !.agents[id] = [status |-> "available", joinedAt |-> joinedAt]]

AvailableAgents(d) ==
    {a \in AgentIds : AgentExists(d.agents[a])
                      /\ d.agents[a].status = "available"}

\* the select without its ORDER BY
DbGetAvailableAgentsAnyOrder(d) == Orders(AvailableAgents(d))

\* the row orders the select may return: ascending joined_at, rows with the
\* same joined_at in either order
DbGetAvailableAgents(d) ==
    {o \in Orders(AvailableAgents(d)) :
        \A i, j \in DOMAIN o :
            i < j => d.agents[o[i]].joinedAt <= d.agents[o[j]].joinedAt}

\* the agent the loop returns for the rows of the select, 0 for undefined
CsGetAvailableAgent(st, rows) ==
    LET fit == {i \in DOMAIN rows :
                   Cardinality(DbGetAgentActiveSessions(st.db, rows[i]))
                       < AgentCapacity}
    IN IF fit = {} THEN 0
       ELSE rows[CHOOSE i \in fit : \A k \in fit : i <= k]

\* addAgent; the clock may or may not have moved since the last insert
JoinAgent(id) ==
    /\ agents[id] = NoAgentRow
    /\ \E t \in {now, now + 1} :
           /\ t <= MaxClock
           /\ now' = t
           /\ SetDb(DbCreateAgentAt(DbState, id, t))
    /\ UNCHANGED <<lists, queueMetadata, redisActiveSessions, ledger, cmVars,
                   popLog, calls, socketIo>>

StartCloseSession(c, sessionId) ==
    /\ calls[c] = IdleCall
    /\ sessions[sessionId] # NoSession
    /\ calls' = [calls EXCEPT ![c] = CallCloseSession(sessionId)]
    /\ UNCHANGED <<qVars, dbVars, cmVars, popLog, socketIo>>

CloseReturn(c) ==
    /\ Running(c, {"closeSession"}, "done")
    /\ calls' = [calls EXCEPT ![c] = IdleCall]
    /\ UNCHANGED <<qVars, dbVars, cmVars, popLog, socketIo>>

\* createSession; ids are fresh uuids, taken here in increasing order
CreateNextSession(id) ==
    /\ \A o \in SessionIds : o < id => sessions[o] # NoSession
    /\ ClaimsCreateSession(id)

AgentsNext ==
    \/ \E s \in SessionIds : CreateNextSession(s)
    \/ \E a \in AgentIds : JoinAgent(a)
    \/ \E s \in SessionIds, a \in AgentIds : AssignSessionToAgent(s, a)
    \/ \E s \in CreatableIds : StartCloseSession(1, s)
    \/ CloseGetSession(1)
    \/ CloseDbCloseSession(1)
    \/ CloseGetAgentActiveSessions(1)
    \/ CloseUpdateAgentStatus(1)
    \/ CloseReturn(1)

SpecAgents == Init /\ [][AgentsNext]_vars

\* the agents getAvailableAgent may pick from
EligibleAgents ==
    {a \in AvailableAgents(DbState) :
        Cardinality(DbGetAgentActiveSessions(DbState, a)) < AgentCapacity}

\* C29 (specification SpecAgents): getAvailableAgent returns the
\* earliest-joined agent whose status is 'available' and who has fewer than
\* three active sessions, and undefined exactly when there is no such agent.
C29_EarliestAvailableBelowCapacity ==
    \A rows \in DbGetAvailableAgents(DbState) :
        LET r == CsGetAvailableAgent(CsState, rows)
        IN /\ r = 0 <=> EligibleAgents = {}
           /\ r # 0 =>
                  /\ r \in EligibleAgents
                  /\ \A b \in EligibleAgents :
                         agents[r].joinedAt <= agents[b].joinedAt

\* C29 witness: the earliest-joined available agent holds three active
\* sessions and a later-joined available agent is returned instead.
C29_Witness ==
    \E a, b \in AgentIds :
        /\ {a, b} \subseteq AvailableAgents(DbState)
        /\ agents[a].joinedAt < agents[b].joinedAt
        /\ Cardinality(DbGetAgentActiveSessions(DbState, a)) = AgentCapacity
        /\ \A rows \in DbGetAvailableAgents(DbState) :
               CsGetAvailableAgent(CsState, rows) = b

(***************************************************************************)
(* The same calls made on ChatService and on the in-memory ChatManager.    *)
(***************************************************************************)
BothCreateSession(id) ==
    /\ id \in CreatableIds
    /\ sessions[id] = NoSession
    /\ SetDb(DbCreateSession(DbState, id))
    /\ StepCreateSession(id)
    /\ UNCHANGED <<qVars, popLog, calls, socketIo>>

BothTransferToQueue(sessionId, reason, priority) ==
    /\ sessions[sessionId] # NoSession => now < MaxClock
    /\ SetCs(CsTransferToQueue(CsState, sessionId, reason, priority))
    /\ StepTransferToQueue(sessionId, reason, priority)
    /\ UNCHANGED <<popLog, calls, socketIo>>

BothAddAgent(id) ==
    /\ agents[id] = NoAgentRow
    /\ SetDb(DbCreateAgent(DbState, id))
    /\ StepAddAgent(id)
    /\ UNCHANGED <<qVars, popLog, calls, socketIo>>

BothAssignSessionToAgent(sessionId, agentId) ==
    /\ SetCs(CsAssignSessionToAgent(CsState, sessionId, agentId))
    /\ StepAssignSessionToAgent(sessionId, agentId)
    /\ UNCHANGED <<popLog, calls, socketIo>>

BothNext ==
    \/ \E s \in SessionIds : BothCreateSession(s)
    \/ \E s \in SessionIds, r \in {"escalation"}, p \in PrioritySet :
           BothTransferToQueue(s, r, p)
    \/ \E s \in SessionIds, r \in {"escalation"}, p \in PrioritySet :
           TransferToQueueRedisDown(s, r, p)
    \/ \E a \in AgentIds : BothAddAgent(a)
    \/ \E s \in SessionIds, a \in AgentIds : BothAssignSessionToAgent(s, a)

SpecBoth == Init /\ [][BothNext]_vars

\* C30 (specification SpecBoth): transferToQueue called with a session id
\* that does not exist does not throw and leaves every session, the queue
\* and every agent unchanged, in ChatService (also when Redis is down) and in
\* the in-memory ChatManager.
C30_TransferOfUnknownSessionIsNoOp ==
    \A s \in SessionIds, r \in Reasons, p \in PrioritySet :
        /\ sessions[s] = NoSession =>
               /\ CsTransferToQueue(CsState, s, r, p) = CsState
               /\ CsTransferToQueueRedisDown(CsState, s, r, p) = CsState
               /\ ~CsTransferToQueueThrows(CsState, s)
        /\ cmSessions[s] = NoSession =>
               CmTransferToQueue(CmState, s, r, p) = CmState

\* C30 witness: both stores hold a queued session and a busy agent, and a
\* transferToQueue of an id neither knows changes neither.
C30_Witness ==
    \E s \in SessionIds, a \in AgentIds :
        /\ sessions[s] = NoSession /\ cmSessions[s] = NoSession
        /\ QGetQueueLength(QState) > 0 /\ transferQueue # <<>>
        /\ agents[a].status = "busy" /\ cmAgents[a].status = "busy"
        /\ CsTransferToQueue(CsState, s, "escalation", "high") = CsState
        /\ CmTransferToQueue(CmState, s, "escalation", "high") = CmState

(***************************************************************************)
(* The array-backed ChatManager (src/socket/chatManager.ts): the same maps *)
(* of sessions and agents, and waitingQueue, an array of session ids.  A   *)
(* state o is the record of the three.                                     *)
(***************************************************************************)
OcmState ==
    [sessions |-> cmSessions, agents |-> cmAgents, waitingQueue |-> waitingQueue]

SetOcm(o) ==
    /\ cmSessions' = o.sessions
    /\ cmAgents' = o.agents
    /\ waitingQueue' = o.waitingQueue
    /\ UNCHANGED <<transferQueue, qVars, dbVars, popLog, calls, socketIo>>

\* whether Array.includes(sessionId) holds
Includes(queue, sessionId) == \E i \in DOMAIN queue : queue[i] = sessionId

\* addToQueue without the includes test
OcmAddToQueueAlways(o, sessionId) ==
    [o EXCEPT !.waitingQueue = Append(@, sessionId)]

OcmAddToQueue(o, sessionId) ==
    IF Includes(o.waitingQueue, sessionId) THEN o
    ELSE [o EXCEPT !.waitingQueue = Append(@, sessionId)]

OcmRemoveFromQueue(o, sessionId) ==
    LET index == IndexOf(o.waitingQueue, 1, sessionId)
    IN IF index = 0 THEN o
       ELSE [o EXCEPT !.waitingQueue = RemoveAt(@, index)]

OcmUpdateSessionStatus(o, sessionId, status) ==
    IF o.sessions[sessionId] = NoSession THEN o
    ELSE LET o1 == [o EXCEPT !.sessions[sessionId].status = status]
         IN IF status = "waiting" THEN OcmAddToQueue(o1, sessionId)
            ELSE IF status \in {"agent", "closed"}
                 THEN OcmRemoveFromQueue(o1, sessionId)
            ELSE o1

\* Array.shift()
OcmGetNextInQueue(o) ==
    IF o.waitingQueue = <<>> THEN o
    ELSE [o EXCEPT !.waitingQueue = Tail(@)]

\* the forEach of removeAgent from its i-th element on
RECURSIVE OcmRequeueFrom(_, _, _)
OcmRequeueFrom(o, activeSessions, i) ==
    IF i > Len(activeSessions) THEN o
    ELSE OcmRequeueFrom(
             OcmUpdateSessionStatus(o, activeSessions[i], "waiting"),
             activeSessions, i + 1)

OcmRemoveAgent(o, agentId) ==
    IF ~AgentExists(o.agents[agentId]) THEN o
    ELSE [OcmRequeueFrom(o, o.agents[agentId].activeSessions, 1)
             EXCEPT !.agents[agentId] = DeletedCmAgent]

OcmAssignSessionToAgent(o, sessionId, agentId) ==
    IF o.sessions[sessionId] = NoSession \/ ~AgentExists(o.agents[agentId])
    THEN o
    ELSE OcmRemoveFromQueue(
             [o EXCEPT !.sessions[sessionId] =
                           [status |-> "agent", assignedAgent |-> agentId],
                       !.agents[agentId] =
                           [status |-> "busy",
                            activeSessions |-> Append(@.activeSessions,
                                                      sessionId)]],
             sessionId)

OcmCloseSession(o, sessionId) ==
    LET session == o.sessions[sessionId]
        agent == o.agents[session.assignedAgent]
        index == IndexOf(agent.activeSessions, 1, sessionId)
        left == IF index = 0 THEN agent.activeSessions
                ELSE RemoveAt(agent.activeSessions, index)
        o1 == [o EXCEPT !.sessions[sessionId].status = "closed"]
        o2 == IF session.assignedAgent # 0 /\ AgentExists(agent)
              THEN [o1 EXCEPT !.agents[session.assignedAgent] =
                                  [status |-> IF left = <<>> THEN "available"
                                              ELSE agent.status,
                                   activeSessions |-> left]]
              ELSE o1
    IN IF session = NoSession THEN o ELSE OcmRemoveFromQueue(o2, sessionId)

OcmCreateSession(o, id) ==
    [o EXCEPT !.sessions[id] = [status |-> "bot", assignedAgent |-> 0]]

OcmAddAgent(o, id) ==
    [o EXCEPT !.agents[id] = [status |-> "available", activeSessions |-> <<>>]]

ArrayCreateSession(id) ==
    /\ id \in CreatableIds
    /\ cmSessions[id] = NoSession
    /\ SetOcm(OcmCreateSession(OcmState, id))

ArrayUpdateSessionStatus(sessionId, status) ==
    SetOcm(OcmUpdateSessionStatus(OcmState, sessionId, status))

\* addToQueue takes any string; one id that names no session stands for all
ArrayAddToQueue(sessionId) ==
    /\ sessionId \in CreatableIds
           \/ \A o \in SessionIds \ CreatableIds : sessionId <= o
    /\ SetOcm(OcmAddToQueue(OcmState, sessionId))

ArrayRemoveFromQueue(sessionId) ==
    SetOcm(OcmRemoveFromQueue(OcmState, sessionId))

ArrayGetNextInQueue == SetOcm(OcmGetNextInQueue(OcmState))

ArrayAddAgent(id) ==
    /\ cmAgents[id] = NoCmAgent
    /\ SetOcm(OcmAddAgent(OcmState, id))

ArrayRemoveAgent(agentId) == SetOcm(OcmRemoveAgent(OcmState, agentId))

ArrayAssignSessionToAgent(sessionId, agentId) ==
    /\ (cmSessions[sessionId] # NoSession /\ AgentExists(cmAgents[agentId])) =>
           Len(cmAgents[agentId].activeSessions) < MaxActive
    /\ SetOcm(OcmAssignSessionToAgent(OcmState, sessionId, agentId))

ArrayCloseSession(sessionId) == SetOcm(OcmCloseSession(OcmState, sessionId))

ArrayNext ==
    \/ \E s \in SessionIds : ArrayCreateSession(s)
    \/ \E s \in SessionIds, status \in SessionStatuses :
           ArrayUpdateSessionStatus(s, status)
    \/ \E s \in SessionIds : ArrayAddToQueue(s)
    \/ \E s \in SessionIds : ArrayRemoveFromQueue(s)
    \/ ArrayGetNextInQueue
    \/ \E a \in AgentIds : ArrayAddAgent(a)
    \/ \E a \in AgentIds : ArrayRemoveAgent(a)
    \/ \E s \in SessionIds, a \in AgentIds : ArrayAssignSessionToAgent(s, a)
    \/ \E s \in SessionIds : ArrayCloseSession(s)

SpecArray == Init /\ [][ArrayNext]_vars

\* C31 (specification SpecArray): after any sequence of updateSessionStatus,
\* addToQueue, removeFromQueue, getNextInQueue, assignSessionToAgent,
\* removeAgent and closeSession calls, no session id appears in
\* waitingQueue more than once.
C31_NoDuplicateInWaitingQueue ==
    \A i, j \in DOMAIN waitingQueue :
        waitingQueue[i] = waitingQueue[j] => i = j

\* C31 witness: a session that is already in waitingQueue is handed back by
\* removeAgent, whose updateSessionStatus calls addToQueue for it again.
C31_Witness ==
    \E s \in SessionIds, a \in AgentIds :
        /\ Includes(waitingQueue, s)
        /\ AgentExists(cmAgents[a])
        /\ Includes(cmAgents[a].activeSessions, s)
        /\ OcmRemoveAgent(OcmState, a).waitingQueue = waitingQueue
        /\ Len(waitingQueue) > 1

\* C32 (specification SpecQ): after any sequence of addToQueue,
\* getNextInQueue and removeFromQueue calls, the keys of the QUEUE_METADATA
\* hash are exactly the session ids that have an entry in the three lists,
\* and each session's metadata priority names the list that holds its entry.
C32_MetadataMatchesLists ==
    \A s \in SessionIds :
        /\ queueMetadata[s] # NoEntry <=> SessionEntries(QState, s) # {}
        /\ queueMetadata[s] # NoEntry =>
               \A ki \in SessionEntries(QState, s) :
                   ki[1] = GetPriorityQueueKey(queueMetadata[s].priority)

\* C33 (specification SpecAdmin): after clearQueue succeeds in development
\* mode no session is left with status 'waiting'.
C33_ClearQueueLeavesNoneWaiting ==
    LET after == CsClearQueue(CsState, "development")
    IN \A s \in SessionIds : after.db.sessions[s].status # "waiting"

(***************************************************************************)
(* The socket layer of the ChatService build.  socketIo holds the          *)
(* connected sockets, each socket's data.sessionId, the socket the closure *)
(* stored in OpenAIService.transferCallback emits on (0 for the callback   *)
(* set at module load, which emits nothing), and the 'status:changed'      *)
(* events emitted so far as pairs of receiving socket and session.         *)
(***************************************************************************)
\* handleSocketConnection: setTransferCallback overwrites the one field
\* with a closure over this connection's socket
HandleSocketConnection(io, socket) ==
    [io EXCEPT !.connected = @ \cup {socket},
               !.transferCallback = socket]

\* the transfer callback's socket.emit('status:changed', ...)
EmitStatusChanged(io, sessionId) ==
    IF io.transferCallback = 0 THEN io
    ELSE [io EXCEPT !.statusChanged =
                        @ \cup {<<io.transferCallback, sessionId>>}]

Connect(socket) ==
    /\ socket \notin socketIo.connected
    /\ socketIo' = HandleSocketConnection(socketIo, socket)
    /\ UNCHANGED <<qVars, dbVars, cmVars, popLog, calls>>

\* customer:start_chat
StartChat(socket, id) ==
    /\ socket \in socketIo.connected
    /\ id \in CreatableIds
    /\ sessions[id] = NoSession
    /\ SetDb(DbCreateSession(DbState, id))
    /\ socketIo' = [socketIo EXCEPT !.sessionId[socket] = id]
    /\ UNCHANGED <<qVars, cmVars, popLog, calls>>

\* customer:send_message from the socket that started the session, while
\* its status is 'bot', answered by the model with the transferToAgent tool
SendMessageEscalates(socket, priority) ==
    LET sessionId == socketIo.sessionId[socket]
    IN /\ socket \in socketIo.connected
       /\ sessionId # 0
       /\ sessions[sessionId].status = "bot"
       /\ now < MaxClock
       /\ SetCs(CsTransferToQueue(CsState, sessionId, "escalation", priority))
       /\ socketIo' = EmitStatusChanged(socketIo, sessionId)
       /\ UNCHANGED <<cmVars, popLog, calls>>

\* customer:end_chat from the socket that started the session
EndChat(socket) ==
    LET sessionId == socketIo.sessionId[socket]
    IN /\ socket \in socketIo.connected
       /\ sessionId # 0
       /\ SetCs(CsCloseSession(CsState, sessionId))
       /\ UNCHANGED <<cmVars, socketIo, popLog, calls>>

SocketNext ==
    \/ \E k \in SocketIds : Connect(k)
    \/ \E k \in SocketIds, s \in SessionIds : StartChat(k, s)
    \/ \E k \in SocketIds, p \in PrioritySet : SendMessageEscalates(k, p)
    \/ \E k \in SocketIds : EndChat(k)

SpecSockets == Init /\ [][SocketNext]_vars

\* the socket whose data.sessionId is s (0 if none)
OwnerOf(s) ==
    IF \E k \in SocketIds : socketIo.sessionId[k] = s
    THEN CHOOSE k \in SocketIds : socketIo.sessionId[k] = s
    ELSE 0

\* C34 (specification SpecSockets): the 'status:changed' event the transfer
\* callback emits when the assistant escalates session S goes to the socket
\* that owns S, not to the socket that connected most recently.
C34_StatusChangedGoesToOwner ==
    [][\A e \in socketIo'.statusChanged \ socketIo.statusChanged :
          e[1] = OwnerOf(e[2])]_vars

(***************************************************************************)
(* QueueService.getWaitingSessions                                         *)
(***************************************************************************)
\* the positions of the given hash keys after sessions.sort by position
RECURSIVE SortedPositions(_, _)
SortedPositions(q, keys) ==
    IF keys = {} THEN <<>>
    ELSE LET first == CHOOSE s \in keys :
                          \A o \in keys : QGetQueuePosition(q, s)
                                               <= QGetQueuePosition(q, o)
         IN <<QGetQueuePosition(q, first)>>
                \o SortedPositions(q, keys \ {first})

\* the position fields of the list getWaitingSessions returns: one element
\* per field of the metadata hash
QGetWaitingSessions(q) ==
    SortedPositions(q, {s \in SessionIds : q.meta[s] # NoEntry})

\* C35 (specification SpecQ): the positions reported by getWaitingSessions
\* are exactly 1..N with no repeats and no gaps, in ascending order, where N
\* is the value returned by getQueueLength.
C35_PositionsAreOneToN ==
    QGetWaitingSessions(QState) = [i \in 1..QGetQueueLength(QState) |-> i]

\* the session ids returned by getNextInQueue called until it returns null
RECURSIVE Drain(_)
Drain(q) ==
    IF QNextEntry(q) = NoEntry THEN <<>>
    ELSE <<QNextEntry(q).sessionId>> \o Drain(QGetNextInQueue(q))

\* C36 (specification SpecQ): from any reachable state, with no further
\* addToQueue, calling getNextInQueue repeatedly returns every queued
\* session exactly once and then null, after exactly getQueueLength()
\* successful pops.
C36_DrainReturnsEachOnce ==
    /\ Len(Drain(QState)) = QGetQueueLength(QState)
    /\ \A s \in SessionIds :
           Occurrences(Drain(QState), s) =
               (IF InQueue(QState, s) THEN 1 ELSE 0)

====
